---- MODULE Spec2Model ----
(***************************************************************************)
(* A model of stream-wav's StreamingWav (src/src/streaming_wav.rs): the    *)
(* one-time chunk scan of StreamingWav::new over a byte source, and the    *)
(* per-sample decoding of Iterator::next for the three WavSample           *)
(* encodings (u8, i16, f32).                                               *)
(*                                                                         *)
(* The byte source (any R: Read) is a finite sequence of bytes with a read *)
(* cursor and at most one pending transient read fault.  Bytes are the     *)
(* integers 0..255; every multi-byte field is encoded and decoded byte by  *)
(* byte, little-endian, as the code does.                                  *)
(***************************************************************************)
EXTENDS Integers, Sequences, FiniteSets, TLC

VARIABLES
    S,            \* the selected encoding (the type parameter S: WavSample)
    input,        \* what the source was made from: [S, wav, len, fault] (ghost)
    src,          \* every byte the source will ever deliver
    reader,       \* the source's state: [pos, fault]
    pc,           \* "start", "ready" (a handle exists), "failed", "panicked"
    result,       \* what StreamingWav::new returned: [kind, value]
    sample_rate,  \* StreamingWav.sample_rate
    channels,     \* StreamingWav.channels
    out           \* what the calls of next() returned so far, in order

vars == <<S, input, src, reader, pc, result, sample_rate, channels, out>>

----------------------------------------------------------------------------
(* Bounds of the model *)

\* chunks before the data chunk in the enumerated containers
MaxPre == 2
\* largest declared size of an enumerated unknown chunk
MaxJunk == 3
\* calls of next() followed per handle
MaxCalls == 4
\* bytes of the enumerated data payloads
MaxData == 4

----------------------------------------------------------------------------
(* Bytes and the four-byte tags *)

RIFF == <<82, 73, 70, 70>>
WAVE == <<87, 65, 86, 69>>
FMT  == <<102, 109, 116, 32>>
DATA == <<100, 97, 116, 97>>
JUNK == <<74, 85, 78, 75>>
LIST == <<76, 73, 83, 84>>
RIFX == <<82, 73, 70, 88>>
WAVX == <<87, 65, 86, 88>>

Min(a, b) == IF a < b THEN a ELSE b

Take(s, n) == SubSeq(s, 1, Min(n, Len(s)))

Drop(s, n) == SubSeq(s, n + 1, Len(s))

\* n zero bytes (vec![0u8; n], and filler in the enumerated containers)
Zeros(n) == [i \in 1..n |-> 0]

\* u16::to_le_bytes / u32::to_le_bytes, for serialising the containers
U16LE(n) == <<n % 256, (n \div 256) % 256>>

U32LE(n) == <<n % 256, (n \div 256) % 256, (n \div 65536) % 256, (n \div 16777216) % 256>>

\* u16::from_le_bytes
u16_from_le_bytes(b) == b[1] + 256 * b[2]

\* u32::from_le_bytes.  The value is kept as its two 16-bit halves
\* [hi, lo] = hi * 65536 + lo, so that every u32 is represented exactly.
u32_from_le_bytes(b) == [hi |-> b[3] + 256 * b[4], lo |-> b[1] + 256 * b[2]]

\* a u32 as a plain number, for the values that are only reported
U32Value(w) == w.hi * 65536 + w.lo

\* `0u32`
ZeroU32 == [hi |-> 0, lo |-> 0]

\* two's-complement wrap of an integer into i16
ToI16(x) == ((x + 32768) % 65536) - 32768

\* i16::from_le_bytes
i16_from_le_bytes(b) == ToI16(b[1] + 256 * b[2])

\* f32::from_le_bytes: the IEEE-754 bit pattern, most significant byte first
f32_from_le_bytes(b) == <<b[4], b[3], b[2], b[1]>>

----------------------------------------------------------------------------
(* The WavSample implementations' constants *)

Encodings == {"u8", "i16", "f32"}

FORMAT(s) == IF s = "f32" THEN 3 ELSE 1

BITS(s) == CASE s = "u8" -> 8 [] s = "i16" -> 16 [] OTHER -> 32

BYTES(s) == BITS(s) \div 8

----------------------------------------------------------------------------
(* The byte source *)

NoFault == -1

\* Read::read_exact of n bytes (n a plain number) from source bytes b with
\* reader state r.  A pending fault at offset f fails the call that would
\* deliver byte f (or, with f = Len(b), the call that would meet the end);
\* it is transient: the next call reads on.  A failed call has consumed the
\* bytes before the failure.
read_exact(b, r, n) ==
    IF n = 0 THEN [ok |-> TRUE, err |-> "", buf |-> <<>>, rd |-> r]
    ELSE IF r.fault >= r.pos /\ r.fault < r.pos + n /\ r.fault <= Len(b)
    THEN [ok |-> FALSE, err |-> "Fault", buf |-> <<>>,
          rd |-> [pos |-> r.fault, fault |-> NoFault]]
    ELSE IF r.pos + n > Len(b)
    THEN [ok |-> FALSE, err |-> "UnexpectedEof", buf |-> <<>>,
          rd |-> [pos |-> Len(b), fault |-> r.fault]]
    ELSE [ok |-> TRUE, err |-> "", buf |-> SubSeq(b, r.pos + 1, r.pos + n),
          rd |-> [pos |-> r.pos + n, fault |-> r.fault]]

\* `chunk_size as usize` bytes asked of read_exact: a size with a non-zero
\* high half is more than any modelled source holds
read_exact_usize(b, r, w) ==
    read_exact(b, r, IF w.hi > 0 THEN Len(b) + 1 ELSE w.lo)

\* SkipLen without the padding byte of an odd-sized chunk
SkipLen_NoPad(chunk_size) == chunk_size

\* SkipLen with the parity test inverted: a padding byte after even sizes
SkipLen_PadEven(chunk_size) ==
    IF chunk_size.lo % 2 = 0
    THEN [hi |-> chunk_size.hi, lo |-> chunk_size.lo + 1]
    ELSE chunk_size

\* lines 71-74: the number of bytes to discard for an unknown chunk
SkipLen(chunk_size) ==
    IF chunk_size.lo % 2 = 1
    THEN IF chunk_size.lo = 65535
         THEN [hi |-> chunk_size.hi + 1, lo |-> 0]
         ELSE [hi |-> chunk_size.hi, lo |-> chunk_size.lo + 1]
    ELSE chunk_size

\* std::io::copy(&mut reader.by_ref().take(skip), &mut sink()): discards up
\* to skip bytes; the source ending early is not an error, a read fault is
copy_take(b, r, skip) ==
    LET n == IF skip.hi > 0 THEN Len(b) + 1 ELSE skip.lo
    IN  IF r.fault >= r.pos /\ r.fault < r.pos + n /\ r.fault <= Len(b)
        THEN [ok |-> FALSE, err |-> "Fault",
              rd |-> [pos |-> r.fault, fault |-> NoFault]]
        ELSE [ok |-> TRUE, err |-> "",
              rd |-> [pos |-> Min(r.pos + n, Len(b)), fault |-> r.fault]]

----------------------------------------------------------------------------
(* WavSample::next for the three encodings: Option<Sample> and the reader *)

None == [some |-> FALSE]

Some(v) == [some |-> TRUE, v |-> v]

\* u8_next reading the byte as a signed value: (buf[0] as i8 as i16) * 256
u8_next_Signed(b, r) ==
    LET x == read_exact(b, r, 1)
    IN  [ret |-> IF x.ok
                 THEN Some(ToI16((IF x.buf[1] >= 128 THEN x.buf[1] - 256 ELSE x.buf[1]) * 256))
                 ELSE None,
         rd |-> x.rd]

\* <u8 as WavSample>::next: (buf[0] as i16 - 128) * 256 in i16 arithmetic
u8_next(b, r) ==
    LET x == read_exact(b, r, 1)
    IN  [ret |-> IF x.ok THEN Some(ToI16(ToI16(x.buf[1] - 128) * 256)) ELSE None,
         rd |-> x.rd]

\* i16_next decoding with i16::from_be_bytes
i16_next_BigEndian(b, r) ==
    LET x == read_exact(b, r, 2)
    IN  [ret |-> IF x.ok THEN Some(ToI16(x.buf[2] + 256 * x.buf[1])) ELSE None,
         rd |-> x.rd]

\* <i16 as WavSample>::next
i16_next(b, r) ==
    LET x == read_exact(b, r, 2)
    IN  [ret |-> IF x.ok THEN Some(i16_from_le_bytes(x.buf)) ELSE None,
         rd |-> x.rd]

\* <f32 as WavSample>::next
f32_next(b, r) ==
    LET x == read_exact(b, r, 4)
    IN  [ret |-> IF x.ok THEN Some(f32_from_le_bytes(x.buf)) ELSE None,
         rd |-> x.rd]

\* S::next built on Read::read instead of read_exact: a short read still
\* yields a sample, decoded from a zero-filled buffer
WavSample_next_ShortRead(s, b, r) ==
    LET avail == Len(b) - r.pos
        n == Min(BYTES(s), avail)
        buf == SubSeq(b, r.pos + 1, r.pos + n) \o Zeros(BYTES(s) - n)
    IN  [ret |-> IF n = 0 \/ r.fault \in r.pos..(r.pos + n - 1) THEN None
                 ELSE Some(CASE s = "u8" -> ToI16(ToI16(buf[1] - 128) * 256)
                             [] s = "i16" -> i16_from_le_bytes(buf)
                             [] OTHER -> f32_from_le_bytes(buf)),
         rd |-> [pos |-> r.pos + n, fault |-> IF n = 0 THEN r.fault ELSE NoFault]]

\* S::next(&mut self.reader), dispatched on the type parameter
WavSample_next(s, b, r) ==
    CASE s = "u8" -> u8_next(b, r)
      [] s = "i16" -> i16_next(b, r)
      [] OTHER -> f32_next(b, r)

----------------------------------------------------------------------------
(* StreamingWav::new *)

\* what new() hands back: Ok(Self {..}), Err(..), or a panic unwinding
Outcome(kind, value, r, rate, ch) ==
    [kind |-> kind, value |-> value, cause |-> "", rd |-> r,
     sample_rate |-> rate, channels |-> ch]

\* Err(StreamingWavError::Io(e)): the `?` on a failed read, wrapping its cause
Io(e, r, rate, ch) ==
    [kind |-> "Io", value |-> 0, cause |-> e, rd |-> r,
     sample_rate |-> rate, channels |-> ch]

\* the fmt branch checking the bit depth before the format code
FmtBranch_BitsFirst(s, fmt_chunk, rate, ch) ==
    IF Len(fmt_chunk) < 16 THEN [kind |-> "Panic", value |-> 0, sample_rate |-> rate, channels |-> ch]
    ELSE LET audio_format == u16_from_le_bytes(SubSeq(fmt_chunk, 1, 2))
             new_channels == u16_from_le_bytes(SubSeq(fmt_chunk, 3, 4))
             new_rate == u32_from_le_bytes(SubSeq(fmt_chunk, 5, 8))
             bits_per_sample == u16_from_le_bytes(SubSeq(fmt_chunk, 15, 16))
         IN  IF bits_per_sample # BITS(s)
             THEN [kind |-> "UnsupportedBitsPerSample", value |-> bits_per_sample,
                   sample_rate |-> new_rate, channels |-> new_channels]
             ELSE IF audio_format # FORMAT(s)
             THEN [kind |-> "UnsupportedAudioFormat", value |-> audio_format,
                   sample_rate |-> rate, channels |-> ch]
             ELSE [kind |-> "Continue", value |-> 0,
                   sample_rate |-> new_rate, channels |-> new_channels]

\* the fmt branch without the bit-depth check of lines 58-60
FmtBranch_NoBitsCheck(s, fmt_chunk, rate, ch) ==
    IF Len(fmt_chunk) < 2 THEN [kind |-> "Panic", value |-> 0, sample_rate |-> rate, channels |-> ch]
    ELSE LET audio_format == u16_from_le_bytes(SubSeq(fmt_chunk, 1, 2))
         IN  IF audio_format # FORMAT(s)
             THEN [kind |-> "UnsupportedAudioFormat", value |-> audio_format,
                   sample_rate |-> rate, channels |-> ch]
             ELSE IF Len(fmt_chunk) < 16
             THEN [kind |-> "Panic", value |-> 0, sample_rate |-> rate, channels |-> ch]
             ELSE [kind |-> "Continue", value |-> 0,
                   sample_rate |-> u32_from_le_bytes(SubSeq(fmt_chunk, 5, 8)),
                   channels |-> u16_from_le_bytes(SubSeq(fmt_chunk, 3, 4))]

\* the fmt branch keeping the rate and channel count of the first fmt chunk
FmtBranch_FirstWins(s, fmt_chunk, rate, ch) ==
    IF Len(fmt_chunk) < 2 THEN [kind |-> "Panic", value |-> 0, sample_rate |-> rate, channels |-> ch]
    ELSE LET audio_format == u16_from_le_bytes(SubSeq(fmt_chunk, 1, 2))
         IN  IF audio_format # FORMAT(s)
             THEN [kind |-> "UnsupportedAudioFormat", value |-> audio_format,
                   sample_rate |-> rate, channels |-> ch]
             ELSE IF Len(fmt_chunk) < 16
             THEN [kind |-> "Panic", value |-> 0, sample_rate |-> rate, channels |-> ch]
             ELSE LET first == rate = ZeroU32 /\ ch = 0
                      new_channels == IF first THEN u16_from_le_bytes(SubSeq(fmt_chunk, 3, 4)) ELSE ch
                      new_rate == IF first THEN u32_from_le_bytes(SubSeq(fmt_chunk, 5, 8)) ELSE rate
                      bits_per_sample == u16_from_le_bytes(SubSeq(fmt_chunk, 15, 16))
                  IN  IF bits_per_sample # BITS(s)
                      THEN [kind |-> "UnsupportedBitsPerSample", value |-> bits_per_sample,
                            sample_rate |-> new_rate, channels |-> new_channels]
                      ELSE [kind |-> "Continue", value |-> 0,
                            sample_rate |-> new_rate, channels |-> new_channels]

\* lines 44-60: the fmt branch, given the chunk's bytes.  Each slice of
\* fmt_chunk panics when the chunk is shorter than the slice's end.
FmtBranch(s, fmt_chunk, rate, ch) ==
    IF Len(fmt_chunk) < 2 THEN [kind |-> "Panic", value |-> 0, sample_rate |-> rate, channels |-> ch]
    ELSE LET audio_format == u16_from_le_bytes(SubSeq(fmt_chunk, 1, 2))
         IN  IF audio_format # FORMAT(s)
             THEN [kind |-> "UnsupportedAudioFormat", value |-> audio_format,
                   sample_rate |-> rate, channels |-> ch]
             ELSE IF Len(fmt_chunk) < 16
             THEN [kind |-> "Panic", value |-> 0, sample_rate |-> rate, channels |-> ch]
             ELSE LET new_channels == u16_from_le_bytes(SubSeq(fmt_chunk, 3, 4))
                      new_rate == u32_from_le_bytes(SubSeq(fmt_chunk, 5, 8))
                      bits_per_sample == u16_from_le_bytes(SubSeq(fmt_chunk, 15, 16))
                  IN  IF bits_per_sample # BITS(s)
                      THEN [kind |-> "UnsupportedBitsPerSample", value |-> bits_per_sample,
                            sample_rate |-> new_rate, channels |-> new_channels]
                      ELSE [kind |-> "Continue", value |-> 0,
                            sample_rate |-> new_rate, channels |-> new_channels]

\* the chunk loop taking the end of the source at a chunk header for the
\* end of the header section, and handing back a handle
RECURSIVE Scan_EofEndsScan(_, _, _, _, _)
Scan_EofEndsScan(s, b, r, rate, ch) ==
    LET hd == read_exact(b, r, 8)
    IN  IF ~hd.ok
        THEN IF hd.err = "UnexpectedEof" THEN Outcome("Ok", 0, hd.rd, rate, ch)
             ELSE Io(hd.err, hd.rd, rate, ch)
        ELSE
        LET chunk_id == SubSeq(hd.buf, 1, 4)
            chunk_size == u32_from_le_bytes(SubSeq(hd.buf, 5, 8))
        IN  IF chunk_id = FMT
            THEN LET f == read_exact_usize(b, hd.rd, chunk_size)
                 IN  IF ~f.ok THEN Io(f.err, f.rd, rate, ch)
                     ELSE LET fb == FmtBranch(s, f.buf, rate, ch)
                          IN  IF fb.kind = "Continue"
                              THEN Scan_EofEndsScan(s, b, f.rd, fb.sample_rate, fb.channels)
                              ELSE Outcome(fb.kind, fb.value, f.rd, fb.sample_rate, fb.channels)
            ELSE IF chunk_id = DATA
            THEN Outcome("Ok", 0, hd.rd, rate, ch)
            ELSE LET c == copy_take(b, hd.rd, SkipLen(chunk_size))
                 IN  IF ~c.ok THEN Io(c.err, c.rd, rate, ch)
                     ELSE Scan_EofEndsScan(s, b, c.rd, rate, ch)

\* the chunk loop honouring the declared size of a data chunk to the point
\* of passing over an empty one as it would an unknown chunk
RECURSIVE Scan_SkipsEmptyData(_, _, _, _, _)
Scan_SkipsEmptyData(s, b, r, rate, ch) ==
    LET hd == read_exact(b, r, 8)
    IN  IF ~hd.ok THEN Io(hd.err, hd.rd, rate, ch)
        ELSE
        LET chunk_id == SubSeq(hd.buf, 1, 4)
            chunk_size == u32_from_le_bytes(SubSeq(hd.buf, 5, 8))
        IN  IF chunk_id = FMT
            THEN LET f == read_exact_usize(b, hd.rd, chunk_size)
                 IN  IF ~f.ok THEN Io(f.err, f.rd, rate, ch)
                     ELSE LET fb == FmtBranch(s, f.buf, rate, ch)
                          IN  IF fb.kind = "Continue"
                              THEN Scan_SkipsEmptyData(s, b, f.rd, fb.sample_rate, fb.channels)
                              ELSE Outcome(fb.kind, fb.value, f.rd, fb.sample_rate, fb.channels)
            ELSE IF chunk_id = DATA /\ chunk_size # ZeroU32
            THEN Outcome("Ok", 0, hd.rd, rate, ch)
            ELSE LET c == copy_take(b, hd.rd, SkipLen(chunk_size))
                 IN  IF ~c.ok THEN Io(c.err, c.rd, rate, ch)
                     ELSE Scan_SkipsEmptyData(s, b, c.rd, rate, ch)

\* lines 37-77: the chunk loop, from reader state r with the rate and the
\* channel count captured so far
RECURSIVE Scan(_, _, _, _, _)
Scan(s, b, r, rate, ch) ==
    LET hd == read_exact(b, r, 8)
    IN  IF ~hd.ok THEN Io(hd.err, hd.rd, rate, ch)
        ELSE
        LET chunk_id == SubSeq(hd.buf, 1, 4)
            chunk_size == u32_from_le_bytes(SubSeq(hd.buf, 5, 8))
        IN  IF chunk_id = FMT
            THEN LET f == read_exact_usize(b, hd.rd, chunk_size)
                 IN  IF ~f.ok THEN Io(f.err, f.rd, rate, ch)
                     ELSE LET fb == FmtBranch(s, f.buf, rate, ch)
                          IN  IF fb.kind = "Continue"
                              THEN Scan(s, b, f.rd, fb.sample_rate, fb.channels)
                              ELSE Outcome(fb.kind, fb.value, f.rd, fb.sample_rate, fb.channels)
            ELSE IF chunk_id = DATA
            THEN Outcome("Ok", 0, hd.rd, rate, ch)
            ELSE LET c == copy_take(b, hd.rd, SkipLen(chunk_size))
                 IN  IF ~c.ok THEN Io(c.err, c.rd, rate, ch)
                     ELSE Scan(s, b, c.rd, rate, ch)

\* new() comparing only the first three bytes with "RIF"
New_RiffPrefix(s, b, r) ==
    LET riff_header == read_exact(b, r, 12)
    IN  IF ~riff_header.ok THEN Io(riff_header.err, riff_header.rd, ZeroU32, 0)
        ELSE IF SubSeq(riff_header.buf, 1, 3) # SubSeq(RIFF, 1, 3)
        THEN Outcome("InvalidRiffFormat", 0, riff_header.rd, ZeroU32, 0)
        ELSE IF SubSeq(riff_header.buf, 9, 12) # WAVE
        THEN Outcome("InvalidWaveFormat", 0, riff_header.rd, ZeroU32, 0)
        ELSE Scan(s, b, riff_header.rd, ZeroU32, 0)

\* new() checking the WAVE marker before the RIFF marker
New_WaveFirst(s, b, r) ==
    LET riff_header == read_exact(b, r, 12)
    IN  IF ~riff_header.ok THEN Io(riff_header.err, riff_header.rd, ZeroU32, 0)
        ELSE IF SubSeq(riff_header.buf, 9, 12) # WAVE
        THEN Outcome("InvalidWaveFormat", 0, riff_header.rd, ZeroU32, 0)
        ELSE IF SubSeq(riff_header.buf, 1, 4) # RIFF
        THEN Outcome("InvalidRiffFormat", 0, riff_header.rd, ZeroU32, 0)
        ELSE Scan(s, b, riff_header.rd, ZeroU32, 0)

\* lines 20-78
New(s, b, r) ==
    LET riff_header == read_exact(b, r, 12)
    IN  IF ~riff_header.ok THEN Io(riff_header.err, riff_header.rd, ZeroU32, 0)
        ELSE IF SubSeq(riff_header.buf, 1, 4) # RIFF
        THEN Outcome("InvalidRiffFormat", 0, riff_header.rd, ZeroU32, 0)
        ELSE IF SubSeq(riff_header.buf, 9, 12) # WAVE
        THEN Outcome("InvalidWaveFormat", 0, riff_header.rd, ZeroU32, 0)
        ELSE Scan(s, b, riff_header.rd, ZeroU32, 0)

----------------------------------------------------------------------------
(* The containers the sources are serialised from.  A chunk is its tag,   *)
(* its declared size, the bytes that physically follow the header         *)
(* (payload and padding) and, for a fmt chunk, the values it declares; a  *)
(* container is the 12-byte header and chunks.                            *)

NoDecl == [format |-> 0, channels |-> 0, rate |-> 0, bits |-> 0]

Chunk(id, size, body, decl) == [id |-> id, size |-> size, body |-> body, decl |-> decl]

\* the 16 bytes of a PCM/float fmt payload
FmtBody(format, ch, rate, bits) ==
    U16LE(format) \o U16LE(ch) \o U32LE(rate)
      \o U32LE(rate * ch * (bits \div 8)) \o U16LE(ch * (bits \div 8)) \o U16LE(bits)

\* a fmt chunk declaring size bytes, followed by pad padding bytes
FmtChunk(format, ch, rate, bits, size, pad) ==
    Chunk(FMT, size, Take(FmtBody(format, ch, rate, bits) \o Zeros(size), size) \o Zeros(pad),
          [format |-> format, channels |-> ch, rate |-> rate, bits |-> bits])

\* an unknown chunk of the given size, word-aligned; its payload repeats
\* the bytes of "data" so that a scan that failed to skip it would see them
JunkChunk(id, size) ==
    Chunk(id, size, [i \in 1..size |-> DATA[((i - 1) % 4) + 1]] \o Zeros(size % 2), NoDecl)

DataChunk(size, payload) == Chunk(DATA, size, payload, NoDecl)

Wav(riff, size, wave, chunks) ==
    [riff |-> riff, size |-> size, wave |-> wave, chunks |-> chunks]

EncodeChunk(c) == c.id \o U32LE(c.size) \o c.body

RECURSIVE EncodeChunks(_)
EncodeChunks(cs) ==
    IF cs = <<>> THEN <<>> ELSE EncodeChunk(Head(cs)) \o EncodeChunks(Tail(cs))

Encode(w) == w.riff \o U32LE(w.size) \o w.wave \o EncodeChunks(w.chunks)

\* offset of the header of chunk i (1-based) in the serialised container
ChunkOffset(w, i) == 12 + Len(EncodeChunks(SubSeq(w.chunks, 1, i - 1)))

\* index of the first data chunk, 0 when there is none
DataIndex(w) ==
    IF \E i \in 1..Len(w.chunks) : w.chunks[i].id = DATA
    THEN CHOOSE i \in 1..Len(w.chunks) :
            /\ w.chunks[i].id = DATA
            /\ \A j \in 1..(i - 1) : w.chunks[j].id # DATA
    ELSE 0

\* offset of the first payload byte of the first data chunk
DataOffset(w) == ChunkOffset(w, DataIndex(w)) + 8

Junks == {JunkChunk(JUNK, n) : n \in 0..MaxJunk} \cup {JunkChunk(LIST, 1)}

Fmts ==
    { FmtChunk(1, 1, 44100, 16, 16, 0),
      FmtChunk(1, 2, 8000, 8, 16, 0),
      FmtChunk(3, 2, 48000, 32, 16, 0),
      FmtChunk(1, 1, 44100, 24, 16, 0),
      FmtChunk(3, 1, 44100, 16, 16, 0),
      FmtChunk(1, 2, 22050, 16, 18, 0),
      FmtChunk(1, 1, 11025, 16, 17, 0),
      FmtChunk(1, 1, 11025, 16, 17, 1),
      FmtChunk(1, 1, 0, 16, 16, 0),
      FmtChunk(1, 1, 44100, 16, 0, 0),
      FmtChunk(1, 1, 44100, 16, 2, 0),
      FmtChunk(1, 1, 44100, 16, 14, 0) }

PreChunks == Junks \cup Fmts

PreSeqs == UNION {[1..n -> PreChunks] : n \in 0..MaxPre}

\* three 16-bit samples: 0, 32767, -32768
Payload6 == <<0, 0, 255, 127, 0, 128>>

Input(s, w, len, fault) == [S |-> s, wav |-> w, len |-> len, fault |-> fault]

Full(w) == Len(Encode(w))

\* the chunk scan: every short sequence of chunks, then data
ScanInputs ==
    { Input(s, Wav(RIFF, 36, WAVE, pre \o <<DataChunk(6, Payload6)>>), -1, NoFault) :
        s \in Encodings, pre \in PreSeqs }

\* a fmt chunk the encoding s accepts
MatchingFmt(s) == FmtChunk(FORMAT(s), 1, 44100, BITS(s), 16, 0)

\* the minimal container of encoding s around a data payload
BaseWav(s, payload) ==
    Wav(RIFF, 36 + Len(payload), WAVE, <<MatchingFmt(s), DataChunk(Len(payload), payload)>>)

\* the 12-byte header: right and wrong markers, any declared size, and the
\* source ending after any number of bytes
HeaderInputs ==
    { Input("i16", Wav(riff, size, wave, BaseWav("i16", <<1, 2>>).chunks), len, NoFault) :
        riff \in {RIFF, RIFX, <<114, 105, 102, 102>>}, wave \in {WAVE, WAVX},
        size \in {0, 38}, len \in 0..46 }

\* a container with a skipped chunk, for every encoding
TailWav(s) ==
    Wav(RIFF, 36, WAVE,
        <<JunkChunk(JUNK, 3), MatchingFmt(s), DataChunk(6, Payload6)>>)

\* the source ending after any number of bytes
TruncInputs ==
    { Input(s, TailWav(s), len, NoFault) : s \in Encodings, len \in 0..Full(TailWav("i16")) }

\* the source faulting once, at any offset
FaultInputs ==
    { Input(s, TailWav(s), -1, f) : s \in Encodings, f \in 0..Full(TailWav("i16")) }

\* every value of one 8-bit sample
U8Inputs == { Input("u8", BaseWav("u8", <<b>>), -1, NoFault) : b \in 0..255 }

SampleBytes == {0, 127, 128, 255}

\* every short payload over the extreme byte values
PayloadInputs ==
    { Input(s, BaseWav(s, p), -1, NoFault) :
        s \in Encodings, p \in UNION {[1..n -> SampleBytes] : n \in 0..MaxData} }

\* a data chunk whose declared size is not the number of bytes that follow,
\* with another chunk after the payload
DataSizeInputs ==
    { Input(s, Wav(RIFF, 36, WAVE,
                   <<MatchingFmt(s), DataChunk(size, <<1, 0, 2, 0>>), JunkChunk(LIST, 2)>>),
            -1, NoFault) :
        s \in Encodings, size \in {0, 2, 4, 6, 1000} }

\* a data payload that itself holds the bytes of a data chunk header, 23
\* bytes in
NestedPayload == Zeros(23) \o DATA \o U32LE(4) \o <<1, 0, 2, 0>>

\* a fmt chunk of odd size followed by its padding byte, as the wire format
\* lays it out, then (or not) an empty chunk tagged "JUN ", then data
PaddedFmtInputs ==
    { Input(s, Wav(RIFF, 36, WAVE,
                   <<FmtChunk(FORMAT(s), 1, 11025, BITS(s), 17, 1)>> \o mid
                     \o <<DataChunk(Len(NestedPayload), NestedPayload)>>),
            -1, NoFault) :
        s \in Encodings, mid \in {<<>>, <<JunkChunk(<<74, 85, 78, 32>>, 0)>>} }

\* fmt chunks of every kind behind the data payload, with none, one or two
\* matching fmt chunks before the data chunk
FmtAfterDataInputs ==
    { Input(s, Wav(RIFF, 36, WAVE,
                   SubSeq(<<MatchingFmt(s), FmtChunk(FORMAT(s), 2, 22050, BITS(s), 18, 0)>>, 1, n)
                     \o <<DataChunk(4, <<1, 0, 2, 0>>), after>>),
            -1, NoFault) :
        s \in Encodings, after \in Fmts, n \in 0..2 }

Inputs ==
    ScanInputs \cup HeaderInputs \cup TruncInputs \cup FaultInputs
        \cup U8Inputs \cup PayloadInputs \cup DataSizeInputs \cup PaddedFmtInputs
        \cup FmtAfterDataInputs

----------------------------------------------------------------------------
(* The state machine *)


\* the container behind the source
wav == input.wav

Init ==
    \E i \in Inputs :
        /\ S = i.S
        /\ input = i
        /\ src = IF i.len < 0 THEN Encode(i.wav) ELSE Take(Encode(i.wav), i.len)
        /\ reader = [pos |-> 0, fault |-> i.fault]
        /\ pc = "start"
        /\ result = [kind |-> "", value |-> 0, cause |-> ""]
        /\ sample_rate = ZeroU32
        /\ channels = 0
        /\ out = <<>>

\* StreamingWav::<S, R>::new(reader)
Construct ==
    /\ pc = "start"
    /\ LET o == New(S, src, reader)
       IN  /\ result' = [kind |-> o.kind, value |-> o.value, cause |-> o.cause]
           /\ reader' = o.rd
           /\ pc' = CASE o.kind = "Ok" -> "ready"
                      [] o.kind = "Panic" -> "panicked"
                      [] OTHER -> "failed"
           /\ sample_rate' = IF o.kind = "Ok" THEN o.sample_rate ELSE sample_rate
           /\ channels' = IF o.kind = "Ok" THEN o.channels ELSE channels
    /\ UNCHANGED <<S, input, src, out>>

\* next() clearing the captured metadata once the source is exhausted
NextSample_ClearsOnNone ==
    /\ pc = "ready"
    /\ Len(out) < MaxCalls
    /\ LET x == WavSample_next(S, src, reader)
       IN  /\ out' = Append(out, x.ret)
           /\ IF x.ret.some
              THEN reader' = x.rd /\ UNCHANGED <<sample_rate, channels>>
              ELSE /\ \E k \in reader.pos..x.rd.pos :
                         reader' = [pos |-> k, fault |-> x.rd.fault]
                   /\ sample_rate' = ZeroU32
                   /\ channels' = 0
    /\ UNCHANGED <<S, input, src, pc, result>>

\* <StreamingWav as Iterator>::next.  A failed read_exact leaves it
\* unspecified how many of the bytes before the failure were consumed.
NextSample ==
    /\ pc = "ready"
    /\ Len(out) < MaxCalls
    /\ LET x == WavSample_next(S, src, reader)
       IN  /\ out' = Append(out, x.ret)
           /\ IF x.ret.some
              THEN reader' = x.rd
              ELSE \E k \in reader.pos..x.rd.pos :
                      reader' = [pos |-> k, fault |-> x.rd.fault]
    /\ UNCHANGED <<S, input, src, pc, result, sample_rate, channels>>

Next == Construct \/ NextSample

Spec == Init /\ [][Next]_vars

\* <StreamingWav as Source>::channels, sample_rate, current_frame_len,
\* total_duration
Source_channels == channels

Source_sample_rate == sample_rate

Source_current_frame_len == None

Source_total_duration == None

----------------------------------------------------------------------------
(* What the claims speak of *)

\* the source delivers its bytes without a read fault
NoFaultInput == input.fault = NoFault

IsUnknown(c) == c.id # FMT /\ c.id # DATA

\* the chunk's payload is followed by one padding byte exactly when its
\* size is odd
Aligned(c) == Len(c.body) = c.size + (c.size % 2)

\* a fmt chunk of at least 16 bytes declaring the selected encoding, the
\* next chunk header following its payload directly
MatchingFmtChunk(c) ==
    /\ c.id = FMT
    /\ c.size >= 16
    /\ Len(c.body) = c.size
    /\ c.decl.format = FORMAT(S)
    /\ c.decl.bits = BITS(S)

\* the first n chunks are aligned unknown chunks and matching fmt chunks
GoodPrefix(n) ==
    \A j \in 1..n :
        \/ IsUnknown(wav.chunks[j]) /\ Aligned(wav.chunks[j])
        \/ MatchingFmtChunk(wav.chunks[j])

\* RIFF/WAVE header, aligned unknown chunks and matching fmt chunks, then a
\* data chunk header, all of it delivered
WellFormedContainer ==
    /\ wav.riff = RIFF
    /\ wav.wave = WAVE
    /\ DataIndex(wav) > 0
    /\ GoodPrefix(DataIndex(wav) - 1)
    /\ Len(src) >= DataOffset(wav)

\* such a container, delivered without a read fault
WellFormedToData == NoFaultInput /\ WellFormedContainer

\* index of the last fmt chunk before the data chunk, 0 when there is none
LastFmtIndex ==
    LET before == {j \in 1..(DataIndex(wav) - 1) : wav.chunks[j].id = FMT}
    IN  IF before = {} THEN 0 ELSE CHOOSE j \in before : \A i \in before : i <= j

\* the cursor at the moment new() returned (of a state with a handle)
DataStart == New(S, src, [pos |-> 0, fault |-> input.fault]).rd.pos

\* the bytes the source holds from that cursor on
DataBytes == Drop(src, DataStart)

\* C1: for a container made of the RIFF/WAVE header, aligned unknown
\* chunks and matching fmt chunks, then a data chunk header, new() succeeds
\* and on return exactly the bytes up to the first data payload byte have
\* been consumed.
C1_CursorAtFirstDataByte ==
    (WellFormedToData /\ pc # "start") =>
        /\ result.kind = "Ok"
        /\ pc = "ready"
        /\ out = <<>> => reader.pos = DataOffset(wav)

C1_Witness ==
    /\ WellFormedToData
    /\ pc = "ready"
    /\ out = <<>>
    /\ reader.pos = DataOffset(wav)
    /\ DataIndex(wav) = 3
    /\ \E j \in 1..2 : IsUnknown(wav.chunks[j]) /\ wav.chunks[j].size = 3
    /\ \E j \in 1..2 : wav.chunks[j].id = FMT

\* the signed 16-bit value of the little-endian byte pair (lo, hi)
Signed16(lo, hi) == IF hi >= 128 THEN lo + 256 * hi - 65536 ELSE lo + 256 * hi

\* C2: with the 16-bit encoding, the k-th next() returns the signed
\* little-endian value of data bytes 2k and 2k+1 while two bytes remain and
\* the end afterwards, and channels() and sample_rate() are the values the
\* fmt chunk declares.
C2_Pcm16SamplesInOrder ==
    (S = "i16" /\ NoFaultInput /\ pc = "ready") =>
        /\ WellFormedToData => DataStart = DataOffset(wav)
        /\ \A k \in 1..Len(out) :
              IF 2 * k <= Len(DataBytes)
              THEN /\ out[k].some
                   /\ out[k].v = Signed16(DataBytes[2 * k - 1], DataBytes[2 * k])
              ELSE ~out[k].some
        /\ (WellFormedToData /\ LastFmtIndex > 0) =>
              /\ Source_channels = wav.chunks[LastFmtIndex].decl.channels
              /\ U32Value(Source_sample_rate) = wav.chunks[LastFmtIndex].decl.rate

C2_Witness ==
    /\ S = "i16"
    /\ WellFormedToData
    /\ pc = "ready"
    /\ DataBytes = <<0, 0, 255, 127, 0, 128>>
    /\ Len(out) = 4
    /\ out[1].some /\ out[1].v = 0
    /\ out[2].some /\ out[2].v = 32767
    /\ out[3].some /\ out[3].v = -32768
    /\ ~out[4].some
    /\ Source_channels = 1
    /\ U32Value(Source_sample_rate) = 44100

\* C3: with the 8-bit encoding every data byte b decodes to (b - 128) * 256
\* exactly, a value in -32768..32512, byte 128 to 0; a data chunk holding
\* the single byte 0x80 yields the sample 0 and then the end.
C3_Pcm8Rescale ==
    (S = "u8" /\ NoFaultInput /\ pc = "ready") =>
        /\ \A k \in 1..Len(out) :
              IF k <= Len(DataBytes)
              THEN /\ out[k].some
                   /\ out[k].v = (DataBytes[k] - 128) * 256
                   /\ out[k].v >= -32768 /\ out[k].v <= 32512
                   /\ DataBytes[k] = 128 => out[k].v = 0
              ELSE ~out[k].some
        /\ DataBytes = <<128>> =>
              \A k \in 1..Len(out) : out[k].some <=> k = 1

C3_Witness ==
    /\ S = "u8"
    /\ WellFormedToData
    /\ pc = "ready"
    /\ DataBytes = <<128>>
    /\ Len(out) = 2
    /\ out[1].some /\ out[1].v = 0
    /\ ~out[2].some

\* the call of next() that meets the input's fault: the calls before it
\* read whole samples
FaultCall == ((input.fault - DataStart) \div BYTES(S)) + 1

\* C4: a read that ends or faults short of one sample makes next() return
\* None, with no error: a source that ends n bytes after the data header
\* yields exactly n div BYTES samples before its first None, and none after.
C4_ShortReadEndsSequence ==
    /\ out # <<>> => pc = "ready" /\ result.kind = "Ok"
    /\ (NoFaultInput /\ pc = "ready") =>
          \A k \in 1..Len(out) : out[k].some <=> k <= Len(DataBytes) \div BYTES(S)
    /\ ( /\ pc = "ready"
         /\ input.fault >= DataStart
         /\ input.fault <= Len(src)
         /\ Len(out) >= FaultCall ) =>
          /\ \A k \in 1..(FaultCall - 1) : out[k].some
          /\ ~out[FaultCall].some

C4_Witness ==
    /\ S = "i16"
    /\ WellFormedToData
    /\ pc = "ready"
    /\ Len(DataBytes) = 5
    /\ Len(out) = 4
    /\ out[2].some
    /\ ~out[3].some
    /\ ~out[4].some

\* C5: once next() has returned None, every later call returns None, for
\* every byte source, one that faulted included.
C5_ExhaustionIsIdempotent ==
    \A j \in 1..Len(out) : \A k \in 1..Len(out) :
        (j < k /\ ~out[j].some) => ~out[k].some

\* C6 as claimed: every byte sequence not beginning with "RIFF", of any
\* length, makes new() fail with InvalidRiffFormat.
C6_AnyLengthIsInvalidRiff ==
    (NoFaultInput /\ pc # "start" /\ Take(src, 4) # RIFF) =>
        result.kind = "InvalidRiffFormat"

\* C6 as amended: a byte sequence of at least 12 bytes not beginning with
\* "RIFF" makes new() fail with InvalidRiffFormat; a sequence shorter than
\* 12 bytes, whatever it begins with, makes it fail with Io.
C6_InvalidRiffFromTwelveBytes ==
    (NoFaultInput /\ pc # "start") =>
        /\ (Len(src) >= 12 /\ Take(src, 4) # RIFF) =>
              result.kind = "InvalidRiffFormat" /\ pc = "failed"
        /\ Len(src) < 12 =>
              result.kind = "Io" /\ result.cause = "UnexpectedEof" /\ pc = "failed"

C6_Witness ==
    /\ NoFaultInput
    /\ Len(src) >= 12
    /\ Take(src, 4) = RIFX
    /\ SubSeq(src, 9, 12) = WAVE
    /\ result.kind = "InvalidRiffFormat"

\* C7: bytes 0-3 "RIFF" and bytes 8-11 other than "WAVE" make new() fail
\* with InvalidWaveFormat whatever bytes 4-7 and the following bytes are;
\* with both markers wrong the fault is InvalidRiffFormat.
C7_InvalidWaveAfterRiff ==
    (NoFaultInput /\ pc # "start" /\ Len(src) >= 12 /\ SubSeq(src, 9, 12) # WAVE) =>
        /\ pc = "failed"
        /\ result.kind = IF SubSeq(src, 1, 4) = RIFF
                         THEN "InvalidWaveFormat"
                         ELSE "InvalidRiffFormat"

C7_Witness ==
    /\ NoFaultInput
    /\ Len(src) > 12
    /\ SubSeq(src, 1, 4) = RIFF
    /\ SubSeq(src, 5, 8) = <<0, 0, 0, 0>>
    /\ SubSeq(src, 9, 12) = WAVX
    /\ result.kind = "InvalidWaveFormat"

\* chunk i is a fmt chunk that the scan reaches and reads whole: the header
\* is right, the chunks before it are aligned unknown chunks and matching
\* fmt chunks, and the source delivers its declared bytes
FmtReached(i) ==
    /\ NoFaultInput
    /\ wav.riff = RIFF
    /\ wav.wave = WAVE
    /\ i \in 1..Len(wav.chunks)
    /\ wav.chunks[i].id = FMT
    /\ GoodPrefix(i - 1)
    /\ Len(wav.chunks[i].body) >= wav.chunks[i].size
    /\ Len(src) >= ChunkOffset(wav, i) + 8 + wav.chunks[i].size

\* C8: a fmt chunk declaring a format code c other than the encoding's
\* FORMAT makes new() fail with UnsupportedAudioFormat(c), whatever
\* bits-per-sample it declares.
C8_FormatCodeReportedFirst ==
    \A i \in 1..Len(wav.chunks) :
        ( /\ FmtReached(i)
          /\ wav.chunks[i].size >= 2
          /\ wav.chunks[i].decl.format # FORMAT(S)
          /\ pc # "start" ) =>
            /\ pc = "failed"
            /\ result.kind = "UnsupportedAudioFormat"
            /\ result.value = wav.chunks[i].decl.format

C8_Witness ==
    /\ S = "f32"
    /\ FmtReached(1)
    /\ wav.chunks[1].decl.format = 1
    /\ wav.chunks[1].decl.bits = 16
    /\ result.kind = "UnsupportedAudioFormat"
    /\ result.value = 1

\* C9: a fmt chunk declaring the encoding's format code and a
\* bits-per-sample b other than the encoding's BITS makes new() fail with
\* UnsupportedBitsPerSample(b); no handle is returned though a data chunk
\* follows.
C9_BitDepthReported ==
    \A i \in 1..Len(wav.chunks) :
        ( /\ FmtReached(i)
          /\ wav.chunks[i].size >= 16
          /\ wav.chunks[i].decl.format = FORMAT(S)
          /\ wav.chunks[i].decl.bits # BITS(S)
          /\ pc # "start" ) =>
            /\ pc = "failed"
            /\ result.kind = "UnsupportedBitsPerSample"
            /\ result.value = wav.chunks[i].decl.bits

C9_Witness ==
    /\ S = "i16"
    /\ FmtReached(1)
    /\ wav.chunks[1].decl.bits = 24
    /\ Len(wav.chunks) = 2
    /\ wav.chunks[2].id = DATA
    /\ pc = "failed"
    /\ result.kind = "UnsupportedBitsPerSample"
    /\ result.value = 24

\* the offsets at which the chunk loop of lines 37-77 reads a chunk header,
\* from reader state r on
RECURSIVE HeaderOffsets(_, _, _)
HeaderOffsets(s, b, r) ==
    LET hd == read_exact(b, r, 8)
    IN  IF ~hd.ok THEN {r.pos}
        ELSE
        LET chunk_id == SubSeq(hd.buf, 1, 4)
            chunk_size == u32_from_le_bytes(SubSeq(hd.buf, 5, 8))
        IN  IF chunk_id = FMT
            THEN LET f == read_exact_usize(b, hd.rd, chunk_size)
                 IN  IF f.ok /\ FmtBranch(s, f.buf, ZeroU32, 0).kind = "Continue"
                     THEN {r.pos} \cup HeaderOffsets(s, b, f.rd)
                     ELSE {r.pos}
            ELSE IF chunk_id = DATA
            THEN {r.pos}
            ELSE LET c == copy_take(b, hd.rd, SkipLen(chunk_size))
                 IN  IF c.ok THEN {r.pos} \cup HeaderOffsets(s, b, c.rd) ELSE {r.pos}

\* the chunk boundaries of this state's source as new() walks them: empty
\* when the 12-byte header is refused
Boundaries ==
    IF Len(src) >= 12 /\ SubSeq(src, 1, 4) = RIFF /\ SubSeq(src, 9, 12) = WAVE
    THEN HeaderOffsets(S, src, [pos |-> 12, fault |-> NoFault])
    ELSE {}

\* the bytes b with chunk c inserted at offset p
InsertAt(b, p, c) == Take(b, p) \o EncodeChunk(c) \o Drop(b, p)

\* container w with chunk c inserted before its chunk i
InsertChunk(w, i, c) ==
    [w EXCEPT !.chunks = SubSeq(w.chunks, 1, i - 1) \o <<c>> \o SubSeq(w.chunks, i, Len(w.chunks))]

\* the unknown chunks tried for insertion: sizes 0..MaxJunk under two tags
InsertedChunks ==
    {JunkChunk(id, n) : id \in {JUNK, <<98, 101, 120, 116>>}, n \in 0..MaxJunk}

\* the samples next() yields from reader state r on, up to the first None
RECURSIVE DecodeAll(_, _, _)
DecodeAll(s, b, r) ==
    LET x == WavSample_next(s, b, r)
    IN  IF x.ret.some THEN <<x.ret.v>> \o DecodeAll(s, b, x.rd) ELSE <<>>

\* what a fault-free source of bytes b gives: the outcome of new() and,
\* with a handle, the metadata and the whole sample sequence
Run(s, b) ==
    LET o == New(s, b, [pos |-> 0, fault |-> NoFault])
    IN  [kind |-> o.kind, value |-> o.value,
         channels |-> IF o.kind = "Ok" THEN o.channels ELSE 0,
         sample_rate |-> IF o.kind = "Ok" THEN o.sample_rate ELSE ZeroU32,
         samples |-> IF o.kind = "Ok" THEN DecodeAll(s, b, o.rd) ELSE <<>>]

\* the run of this state's handle agrees with the run r of another source:
\* same outcome, same metadata, and the samples returned so far are r's
SameAsRun(r) ==
    pc # "start" =>
        /\ result.kind = r.kind
        /\ result.value = r.value
        /\ pc = "ready" =>
              /\ Source_channels = r.channels
              /\ Source_sample_rate = r.sample_rate
              /\ \A k \in 1..Len(out) :
                    IF k <= Len(r.samples)
                    THEN out[k].some /\ out[k].v = r.samples[k]
                    ELSE ~out[k].some

----------------------------------------------------------------------------
(* Construction outcomes *)

\* the variants of Result<StreamingWav, StreamingWavError>
TypedOutcomes ==
    {"Ok", "Io", "InvalidRiffFormat", "InvalidWaveFormat",
     "UnsupportedAudioFormat", "UnsupportedBitsPerSample"}

\* C11: for every byte source new() ends by returning one of the six typed
\* outcomes (a handle, Io, InvalidRiffFormat, InvalidWaveFormat,
\* UnsupportedAudioFormat, UnsupportedBitsPerSample) and never by a panic,
\* fmt chunks declaring fewer than 16 bytes included.
C11_SixTypedOutcomes ==
    pc # "start" =>
        /\ result.kind \in TypedOutcomes
        /\ pc # "panicked"

\* the number of bytes new() reads of this state's container when the
\* source delivers all of it without a fault
Required == New(S, Encode(wav), [pos |-> 0, fault |-> NoFault]).rd.pos

\* the source ends, or faults, before those bytes have been delivered
SourceFallsShort ==
    \/ Len(src) < Required
    \/ input.fault # NoFault /\ input.fault < Required

\* C12: when the source ends or faults before new() has read the bytes it
\* requires (the 12-byte header, a chunk header, a fmt payload, the bytes of
\* a skipped chunk), new() returns Io wrapping the cause and no handle; a
\* source ending inside a skipped chunk's payload included.
C12_ShortSourceIsIo ==
    (pc # "start" /\ SourceFallsShort) =>
        /\ pc = "failed"
        /\ result.kind = "Io"
        /\ result.cause = IF NoFaultInput THEN "UnexpectedEof" ELSE "Fault"

\* the source ends two bytes into the three-byte payload of the skipped
\* chunk
C12_Witness ==
    /\ wav = TailWav(S)
    /\ NoFaultInput
    /\ ChunkOffset(wav, 1) = 12
    /\ IsUnknown(wav.chunks[1])
    /\ Len(src) = 22
    /\ Required = 56
    /\ pc = "failed"
    /\ result.kind = "Io"
    /\ result.cause = "UnexpectedEof"

----------------------------------------------------------------------------
(* The captured metadata *)

\* how many times the chunk loop executes line 55 (sample_rate = ...) from
\* reader state r on: once per fmt chunk that passes the format-code check
RECURSIVE RateAssignments(_, _, _)
RateAssignments(s, b, r) ==
    LET hd == read_exact(b, r, 8)
    IN  IF ~hd.ok THEN 0
        ELSE
        LET chunk_id == SubSeq(hd.buf, 1, 4)
            chunk_size == u32_from_le_bytes(SubSeq(hd.buf, 5, 8))
        IN  IF chunk_id = FMT
            THEN LET f == read_exact_usize(b, hd.rd, chunk_size)
                 IN  IF ~f.ok THEN 0
                     ELSE LET fb == FmtBranch(s, f.buf, ZeroU32, 0)
                          IN  CASE fb.kind = "Continue" -> 1 + RateAssignments(s, b, f.rd)
                                [] fb.kind = "UnsupportedBitsPerSample" -> 1
                                [] OTHER -> 0
            ELSE IF chunk_id = DATA
            THEN 0
            ELSE LET c == copy_take(b, hd.rd, SkipLen(chunk_size))
                 IN  IF c.ok THEN RateAssignments(s, b, c.rd) ELSE 0

\* C13: after every successful construction sample_rate() is not 0 and
\* sample_rate was assigned exactly once during the chunk scan, whatever
\* the input: data before any fmt chunk, several fmt chunks, a fmt chunk
\* declaring rate 0.
C13_RateNonZeroSetOnce ==
    pc = "ready" =>
        /\ Source_sample_rate # ZeroU32
        /\ RateAssignments(S, src, [pos |-> 12, fault |-> NoFault]) = 1

\* C14: once a handle exists, channels() and sample_rate() return the same
\* values in every state, whatever next() calls are made (returning
\* samples or None); current_frame_len() and total_duration() are None
\* before and after every step; a step changes nothing of the handle but
\* the cursor of its byte source.
C14_MetadataIsFixed ==
    [][pc = "ready" =>
          /\ Source_channels' = Source_channels
          /\ Source_sample_rate' = Source_sample_rate
          /\ Source_current_frame_len = None /\ Source_current_frame_len' = None
          /\ Source_total_duration = None /\ Source_total_duration' = None
          /\ pc' = "ready"
          /\ UNCHANGED <<S, src>>
          /\ Len(out') = Len(out) + 1 ]_vars

\* four calls on a two-byte 16-bit payload: one sample, then None
C14_Witness ==
    /\ pc = "ready"
    /\ S = "i16"
    /\ Len(out) = MaxCalls
    /\ out[1].some
    /\ ~out[2].some
    /\ Source_channels = 1
    /\ U32Value(Source_sample_rate) = 44100
    /\ Source_current_frame_len = None
    /\ Source_total_duration = None

----------------------------------------------------------------------------
(* Construction step by step: the header read, then one step per          *)
(* iteration of the chunk loop.  During the scan sample_rate and channels *)
(* hold the locals of lines 33-34.                                        *)

\* one iteration of the loop of lines 37-77 from reader state r: "Continue"
\* when the loop goes round again, otherwise what new() hands back
ScanStep(s, b, r, rate, ch) ==
    LET hd == read_exact(b, r, 8)
    IN  IF ~hd.ok THEN Io(hd.err, hd.rd, rate, ch)
        ELSE
        LET chunk_id == SubSeq(hd.buf, 1, 4)
            chunk_size == u32_from_le_bytes(SubSeq(hd.buf, 5, 8))
        IN  IF chunk_id = FMT
            THEN LET f == read_exact_usize(b, hd.rd, chunk_size)
                 IN  IF ~f.ok THEN Io(f.err, f.rd, rate, ch)
                     ELSE LET fb == FmtBranch(s, f.buf, rate, ch)
                          IN  Outcome(fb.kind, fb.value, f.rd, fb.sample_rate, fb.channels)
            ELSE IF chunk_id = DATA
            THEN Outcome("Ok", 0, hd.rd, rate, ch)
            ELSE LET c == copy_take(b, hd.rd, SkipLen(chunk_size))
                 IN  IF ~c.ok THEN Io(c.err, c.rd, rate, ch)
                     ELSE Outcome("Continue", 0, c.rd, rate, ch)

\* lines 22-34: the 12-byte header and the two marker checks
ReadRiffHeader ==
    /\ pc = "start"
    /\ LET riff_header == read_exact(src, reader, 12)
           kind == IF ~riff_header.ok THEN "Io"
                   ELSE IF SubSeq(riff_header.buf, 1, 4) # RIFF THEN "InvalidRiffFormat"
                   ELSE IF SubSeq(riff_header.buf, 9, 12) # WAVE THEN "InvalidWaveFormat"
                   ELSE ""
       IN  /\ reader' = riff_header.rd
           /\ result' = [kind |-> kind, value |-> 0, cause |-> riff_header.err]
           /\ pc' = IF kind = "" THEN "scan" ELSE "failed"
    /\ sample_rate' = ZeroU32
    /\ channels' = 0
    /\ UNCHANGED <<S, input, src, out>>

\* lines 37-77: one iteration of the chunk loop
ScanChunk ==
    /\ pc = "scan"
    /\ LET o == ScanStep(S, src, reader, sample_rate, channels)
       IN  /\ reader' = o.rd
           /\ sample_rate' = o.sample_rate
           /\ channels' = o.channels
           /\ result' = IF o.kind = "Continue" THEN result
                        ELSE [kind |-> o.kind, value |-> o.value, cause |-> o.cause]
           /\ pc' = CASE o.kind = "Continue" -> "scan"
                      [] o.kind = "Ok" -> "ready"
                      [] o.kind = "Panic" -> "panicked"
                      [] OTHER -> "failed"
    /\ UNCHANGED <<S, input, src, out>>

ScanNext == ReadRiffHeader \/ ScanChunk \/ NextSample

\* the thread running new() keeps running: every read of a finite source
\* comes back
ScanSpec == Init /\ [][ScanNext]_vars /\ WF_vars(ReadRiffHeader \/ ScanChunk)

\* the stepwise construction ends as new() does
StepwiseMatchesNew ==
    pc \in {"ready", "failed", "panicked"} =>
        LET o == New(S, src, [pos |-> 0, fault |-> input.fault])
        IN  /\ result = [kind |-> o.kind, value |-> o.value, cause |-> o.cause]
            /\ out = <<>> => reader = o.rd
            /\ pc = "ready" =>
                  Source_sample_rate = o.sample_rate /\ Source_channels = o.channels

\* the source holds the bytes of a data chunk header somewhere
SourceHasDataHeader ==
    \E p \in 0..(Len(src) - 8) : SubSeq(src, p + 1, p + 4) = DATA

\* C15: for every finite source new() eventually returns (a handle or a
\* fault); every iteration of the chunk loop that goes round again has
\* consumed at least the 8 header bytes; and a source holding no data chunk
\* header ends construction with a fault, Io for the short read unless a
\* marker or format fault came first, never with a handle.
C15_ConstructionReturns ==
    /\ <>(pc \in {"ready", "failed"})
    /\ [][(pc = "scan" /\ pc' = "scan") => reader'.pos >= reader.pos + 8]_vars
    /\ []((~SourceHasDataHeader /\ pc \notin {"start", "scan"}) =>
            /\ pc = "failed"
            /\ result.kind \in TypedOutcomes \ {"Ok"}
            /\ (result.kind = "Io" /\ NoFaultInput) => result.cause = "UnexpectedEof")

\* what remains of it when a panic counts as an end of construction:
\* new() always ends, and without a data chunk header never with a handle
ConstructionEnds ==
    /\ <>(pc \in {"ready", "failed", "panicked"})
    /\ [][(pc = "scan" /\ pc' = "scan") => reader'.pos >= reader.pos + 8]_vars
    /\ []((~SourceHasDataHeader /\ pc \notin {"start", "scan", "panicked"}) =>
            /\ pc = "failed"
            /\ result.kind \in TypedOutcomes \ {"Ok"}
            /\ (result.kind = "Io" /\ NoFaultInput) => result.cause = "UnexpectedEof")

----------------------------------------------------------------------------
(* The declared size of the data chunk *)

\* the size fields tried in place of the declared one: 0, 1, 1000, 2^32 - 1
AltSizeFields == {U32LE(0), U32LE(1), U32LE(1000), <<255, 255, 255, 255>>}

\* the bytes b with the four bytes before offset p replaced by field
WithSizeField(b, p, field) == Take(b, p - 4) \o field \o Drop(b, p)

\* C16: the sample sequence does not depend on the declared size of the
\* data chunk: a source differing only in the size field of the data chunk
\* header gives the same outcome, metadata and samples, and next() returns
\* a sample for as long as the source holds BYTES more bytes, past the
\* declared size and into whatever follows.
C16_DeclaredDataSizeIgnored ==
    (pc = "ready" /\ NoFaultInput) =>
        /\ SubSeq(src, DataStart - 7, DataStart - 4) = DATA
        /\ \A field \in AltSizeFields :
              SameAsRun(Run(S, WithSizeField(src, DataStart, field)))
        /\ \A k \in 1..Len(out) :
              out[k].some <=> DataStart + k * BYTES(S) <= Len(src)

\* declared size 0, four payload bytes and a LIST chunk behind them: the
\* third sample is decoded from the bytes "LI" of the trailing chunk's tag
C16_Witness ==
    /\ S = "i16"
    /\ NoFaultInput
    /\ pc = "ready"
    /\ DataIndex(wav) = 2
    /\ wav.chunks[2].size = 0
    /\ Len(wav.chunks) = 3
    /\ Len(out) = 4
    /\ out[1].some /\ out[1].v = 1
    /\ out[2].some /\ out[2].v = 2
    /\ out[3].some /\ out[3].v = Signed16(LIST[1], LIST[2])
    /\ out[4].some

----------------------------------------------------------------------------
(* Word alignment *)

\* a fmt chunk of at least 16 bytes declaring the selected encoding, laid
\* out as the wire format has it: one padding byte after an odd size
WireFmtChunk(c) ==
    /\ c.id = FMT
    /\ c.size >= 16
    /\ Aligned(c)
    /\ c.decl.format = FORMAT(S)
    /\ c.decl.bits = BITS(S)

\* RIFF/WAVE header, word-aligned unknown and matching fmt chunks, then a
\* data chunk header, all of it delivered
WireContainer ==
    /\ wav.riff = RIFF
    /\ wav.wave = WAVE
    /\ DataIndex(wav) > 0
    /\ \A j \in 1..(DataIndex(wav) - 1) :
          \/ IsUnknown(wav.chunks[j]) /\ Aligned(wav.chunks[j])
          \/ WireFmtChunk(wav.chunks[j])
    /\ Len(src) >= DataOffset(wav)

\* C17: the scan word-aligns every chunk before data, fmt chunks included:
\* after a chunk of size n the next header is read n + (n mod 2) bytes
\* after the payload start, so a container whose matching fmt chunk has an
\* odd size (17) and its padding byte is constructed successfully with the
\* cursor at the first data byte.
C17_FmtChunkWordAligned ==
    (NoFaultInput /\ WireContainer /\ pc # "start") =>
        /\ \A i \in 1..DataIndex(wav) : ChunkOffset(wav, i) \in Boundaries
        /\ pc = "ready"
        /\ result.kind = "Ok"
        /\ out = <<>> => reader.pos = DataOffset(wav)

----------------------------------------------------------------------------
(* Which fmt chunk the metadata comes from *)

\* C18: with a handle, channels() and sample_rate() are the values declared
\* by the last fmt chunk before the data chunk, both 0 when there is none;
\* every fmt chunk before the data chunk declares the selected format code
\* and bit depth; and nothing behind the data header is inspected: the
\* source cut at the data start constructs to the same handle.
C18_LastFmtBeforeData ==
    (pc = "ready" /\ NoFaultInput) =>
        /\ DataIndex(wav) > 0
        /\ IF LastFmtIndex = 0
           THEN Source_channels = 0 /\ Source_sample_rate = ZeroU32
           ELSE /\ Source_channels = wav.chunks[LastFmtIndex].decl.channels
                /\ U32Value(Source_sample_rate) = wav.chunks[LastFmtIndex].decl.rate
        /\ \A j \in 1..(DataIndex(wav) - 1) :
              wav.chunks[j].id = FMT =>
                  /\ wav.chunks[j].size >= 16
                  /\ wav.chunks[j].decl.format = FORMAT(S)
                  /\ wav.chunks[j].decl.bits = BITS(S)
        /\ LET o == New(S, Take(src, DataStart), [pos |-> 0, fault |-> NoFault])
           IN  /\ o.kind = "Ok"
               /\ o.rd.pos = DataStart
               /\ o.sample_rate = Source_sample_rate
               /\ o.channels = Source_channels

\* two accepted fmt chunks before data, a float fmt chunk behind the
\* payload: the handle carries the second chunk's values
C18_Witness ==
    /\ S = "i16"
    /\ NoFaultInput
    /\ pc = "ready"
    /\ wav.chunks = <<FmtChunk(1, 1, 44100, 16, 16, 0), FmtChunk(1, 2, 22050, 16, 18, 0),
                      DataChunk(4, <<1, 0, 2, 0>>), FmtChunk(3, 2, 48000, 32, 16, 0)>>
    /\ LastFmtIndex = 2
    /\ Source_channels = 2
    /\ U32Value(Source_sample_rate) = 22050
    /\ Len(out) = 2

----------------------------------------------------------------------------
(* The skip counter.  Spec and ScanSpec run the chunk loop with a usize of *)
(* 64 bits (SkipLen); here one iteration over an unknown chunk is run for  *)
(* each width of usize a build can have, and for both settings of the      *)
(* overflow checks (on: `skip += 1` panics on overflow, off: it wraps).    *)

MaxTail == 5

\* size fields from 0 to 2^32 - 1, around every carry of the increment
SizeFields ==
    { <<0, 0, 0, 0>>, <<1, 0, 0, 0>>, <<2, 0, 0, 0>>, <<3, 0, 0, 0>>,
      <<255, 0, 0, 0>>, <<255, 255, 0, 0>>, <<0, 0, 1, 0>>,
      <<255, 255, 255, 127>>, <<0, 0, 0, 128>>,
      <<254, 255, 255, 255>>, <<255, 255, 255, 255>> }

UsizeBits == {32, 64}

\* lines 71-74: `let mut skip = chunk_size as usize; if skip % 2 == 1 {
\* skip += 1; }` in a usize of usize_bits bits
skip_usize(chunk_size, usize_bits, overflow_checks) ==
    LET wide == SkipLen(chunk_size)
    IN  IF usize_bits = 32 /\ wide.hi >= 65536
        THEN IF overflow_checks
             THEN [panic |-> TRUE, skip |-> chunk_size]
             ELSE [panic |-> FALSE, skip |-> [hi |-> wide.hi % 65536, lo |-> wide.lo]]
        ELSE [panic |-> FALSE, skip |-> wide]

\* the reader at the top of the loop, before the header of an unknown chunk
\* with the given size field and up to MaxTail bytes behind it
SkipInit ==
    \E field \in SizeFields, bits \in UsizeBits, checks \in BOOLEAN, n \in 0..MaxTail :
        /\ S = "i16"
        /\ input = [chunk_size |-> field, usize_bits |-> bits, overflow_checks |-> checks,
                    fault |-> NoFault]
        /\ src = JUNK \o field \o [i \in 1..n |-> i]
        /\ reader = [pos |-> 0, fault |-> NoFault]
        /\ pc = "scan"
        /\ result = [kind |-> "", value |-> 0, cause |-> ""]
        /\ sample_rate = ZeroU32
        /\ channels = 0
        /\ out = <<>>

\* lines 39-42 and 69-76: one iteration of the loop over an unknown chunk
SkipChunk ==
    /\ pc = "scan"
    /\ LET hd == read_exact(src, reader, 8)
           chunk_size == u32_from_le_bytes(SubSeq(hd.buf, 5, 8))
           k == skip_usize(chunk_size, input.usize_bits, input.overflow_checks)
           c == copy_take(src, hd.rd, k.skip)
       IN  IF ~hd.ok
           THEN /\ pc' = "failed"
                /\ reader' = hd.rd
                /\ result' = [kind |-> "Io", value |-> 0, cause |-> hd.err]
           ELSE IF k.panic
           THEN /\ pc' = "panicked"
                /\ reader' = hd.rd
                /\ result' = [kind |-> "Panic", value |-> 0, cause |-> ""]
           ELSE IF ~c.ok
           THEN /\ pc' = "failed"
                /\ reader' = c.rd
                /\ result' = [kind |-> "Io", value |-> 0, cause |-> c.err]
           ELSE /\ pc' = "skipped"
                /\ reader' = c.rd
                /\ UNCHANGED result
    /\ UNCHANGED <<S, input, src, sample_rate, channels, out>>

SkipSpec == SkipInit /\ [][SkipChunk]_vars

\* chunk_size + (chunk_size mod 2), in halves of 16 bits
PaddedSize(chunk_size) ==
    LET lo == chunk_size.lo + (chunk_size.lo % 2)
    IN  [hi |-> chunk_size.hi + (lo \div 65536), lo |-> lo % 65536]

\* C19: for every 32-bit chunk_size of an unknown chunk, 2^32 - 1 included,
\* the number of bytes the scan asks to discard is chunk_size + (chunk_size
\* mod 2), the usize counter neither overflowing nor wrapping, and the skip
\* consumes no more than that many bytes of the source.
C19_SkipIsPaddedSize ==
    pc # "scan" =>
        LET chunk_size == u32_from_le_bytes(input.chunk_size)
            k == skip_usize(chunk_size, input.usize_bits, input.overflow_checks)
        IN  /\ pc = "skipped"
            /\ ~k.panic
            /\ k.skip = PaddedSize(chunk_size)
            /\ k.skip.hi = 0 => reader.pos - 8 <= k.skip.lo

====
